---- MODULE Spec2Model ----
(***************************************************************************)
(* SARDIN-AI real-time distribution layer.                                 *)
(*                                                                         *)
(*   - RealtimeService: the browser-side reconnecting WebSocket client.    *)
(*   - DataGenerators.broadcast / initializeWebSocketServer: the ws server *)
(*     that fans generator output out to the connected clients.            *)
(*                                                                         *)
(* Every action is one JavaScript task (an event handler, a timer callback *)
(* or a public method call) run to completion on the single event loop.    *)
(***************************************************************************)
EXTENDS Integers, Sequences, FiniteSets, TLC

\* ------------------------------------------------------------------ bounds
MaxListeners == 2      \* callbacks registered at one time, over all types
MaxSends == 1          \* send() calls of the application
MaxConns == 2          \* WebSocket connections the server accepts
MaxPublish == 2        \* broadcast() calls
MaxRequests == 3       \* GET requests to the route
MaxSignals == 2        \* SIGTERM/SIGINT signals delivered to the process
TimeoutIntervals == 2  \* the heartbeat timeout, in heartbeat intervals
MaxDepth == 1          \* the outbound queue depth a connection may reach
MaxItems == 1          \* storeData() calls
MaxRuns == 2           \* syncData() runs in flight at one time
SentCap == 2           \* successful sends counted per item
MaxTicks == 2          \* clock advances
StepMs == 600          \* milliseconds per clock advance

\* ------------------------------------------------------- program constants
maxReconnectAttempts == 5
reconnectDelay == 1000
retryAttempts == 3

\* --------------------------------------------------------------- universes
Callbacks == {"cb1", "cb2"}
Types == {"alert", "vessel"}
WILDCARD == "*"
ListenerKeys == Types \cup {WILDCARD}
Conns == 1..MaxConns
Generators == {"oceanographic", "prediction", "vessel", "alerts"}

VARIABLES
    \* ---- RealtimeService fields
    ws,                 \* this.ws: "null", or "sock" (the socket last created)
    reconnectAttempts,
    listeners,          \* Map type -> array of callbacks
    connectionStatus,
    heartbeatInterval,  \* TRUE iff this.heartbeatInterval holds a timer id
    messageQueue,
    isProcessingQueue,
    \* ---- the browser around it
    readyState,         \* of the socket last created; "NONE" before the first
    timers,             \* pending setTimeout callbacks, in creation order
    hbActive,           \* number of setInterval heartbeat timers not cleared
    transmitted,        \* what ws.send() has put on the wire to the server
    \* ---- history
    nextSend,           \* number of send() calls made so far (their ids)
    dropped,            \* ids handed to send() while the socket was not open
    failsSinceOpen,     \* connection failures/losses since the last onopen
    openedAfter,        \* reconnectAttempts just before the socket's onopen, -1 if it never opened
    \* ---- the ws server (state of the route module)
    clients,            \* the Set `clients`, in insertion order
    srvState,           \* readyState of each server-side socket, "NONE" before it exists
    \* ---- history of the server
    requests,           \* per connection and type: "never", "on" (a subscribe was handled last), "off" (an unsubscribe after a subscribe was)
    published,          \* number of broadcast() calls so far (the messages' sequence numbers)
    \* ---- the RealtimeService's socket as the server sees it
    peer,               \* the server-side connection of the client's socket, 0 when none
    stream,             \* what the server sent on that connection and onmessage has not yet consumed
    seen,               \* the messages the client's listeners were called with, in order
    \* ---- the route module around the generators
    wss,                \* the module variable wss: "null", "listening", "closing" (close() called), "closed"
    intervals,          \* DataGenerators.intervals: generator -> timer id, 0 when the key is absent
    liveTimers,         \* the setInterval timers not cleared: [name, id]
    timerSeq,           \* number of startGenerating() calls so far (their timers' id)
    \* ---- history of the route
    stopCalls,          \* number of stopGenerating() calls so far
    cycles,             \* number of times clients.size went from 0 to 1
    getCalls,           \* number of GET requests handled
    signals,            \* number of signals handled
    \* ---- the network as an observer sees it
    silentFor,          \* per connection: heartbeat intervals elapsed since its last message
    buffered,           \* per connection: messages accepted by send() and not yet read by the peer
    \* ---- the Socket.IO server of setupSocket
    sockets,            \* per socket id: "none", "connected", "disconnected"
    room,               \* the members of the room 'realtime-data', in insertion order
    \* ---- OfflineService fields
    db,                 \* this.db: "null" or "open"
    isOnline,
    syncInterval,       \* TRUE iff this.syncInterval holds a timer id
    config,             \* enableOfflineMode, autoSync
    \* ---- the browser around it
    stores,             \* the object stores of SARDIN_AI_Offline: store name -> set of records
    syncTimers,         \* number of setInterval sync timers not cleared
    storeCalls,         \* number of storeData() calls made so far (the ids they generate)
    storing,            \* the storeData() call waiting on its first addItem, or <<>>
    runs,               \* the syncData() runs in flight
    now,                \* Date.now(), in milliseconds
    sent,               \* per item id: the sendToServer() calls that resolved (counted up to SentCap)
    ev                  \* what the last task did (its observable outcome)

clientVars == <<ws, reconnectAttempts, listeners, connectionStatus,
                heartbeatInterval, messageQueue, isProcessingQueue, readyState,
                timers, hbActive, transmitted, nextSend, dropped,
                failsSinceOpen, openedAfter>>

hubVars == <<clients, srvState, requests, published>>

linkVars == <<peer, stream, seen>>

genVars == <<wss, intervals, liveTimers, timerSeq, stopCalls, cycles, getCalls, signals>>

netVars == <<silentFor, buffered>>

socketVars == <<sockets, room>>

offVars == <<db, isOnline, syncInterval, config, stores, syncTimers, storeCalls,
             storing, runs, now, sent>>

vars == <<clientVars, hubVars, linkVars, genVars, netVars, socketVars, offVars, ev>>

NoEv == [op |-> "none"]

\* ----------------------------------------------------------------- helpers
RECURSIVE Pow2(_)
Pow2(n) == IF n <= 0 THEN 1 ELSE 2 * Pow2(n - 1)

Range(s) == {s[i] : i \in 1..Len(s)}

RemoveAt(s, i) == SubSeq(s, 1, i - 1) \o SubSeq(s, i + 1, Len(s))

\* Array.prototype.indexOf, 1-based; 0 when absent
IndexOf(s, x) ==
    IF \E i \in 1..Len(s) : s[i] = x
    THEN CHOOSE i \in 1..Len(s) : s[i] = x /\ \A j \in 1..(i - 1) : s[j] # x
    ELSE 0

RECURSIVE SumLen(_, _)
SumLen(f, keys) ==
    IF keys = {} THEN 0
    ELSE LET k == CHOOSE k \in keys : TRUE
         IN Len(f[k]) + SumLen(f, keys \ {k})

\* ------------------------------------------------- RealtimeService (client)

\* const delay = this.reconnectDelay * Math.pow(2, this.reconnectAttempts - 1)
DelayNoExponentShift(attempts) == reconnectDelay * Pow2(attempts)
Delay(attempts) == reconnectDelay * Pow2(attempts - 1)

\* attemptReconnect(): the new reconnectAttempts and timer list
attemptReconnectNoLimit(attempts, tms) ==
    [attempts |-> attempts + 1,
     timers |-> Append(tms, [kind |-> "reconnect", delay |-> Delay(attempts + 1)])]

attemptReconnect(attempts, tms) ==
    IF attempts >= maxReconnectAttempts
    THEN [attempts |-> attempts, timers |-> tms]
    ELSE [attempts |-> attempts + 1,
          timers |-> Append(tms, [kind |-> "reconnect", delay |-> Delay(attempts + 1)])]

\* getConnectionStatus()
getConnectionStatus == connectionStatus

\* stopHeartbeat(): the new (heartbeatInterval, hbActive)
stopHeartbeat(field, active) ==
    IF field THEN [field |-> FALSE, active |-> active - 1]
    ELSE [field |-> field, active |-> active]

\* startHeartbeat(): overwrites the field without clearing an older timer
startHeartbeat(field, active) == [field |-> TRUE, active |-> active + 1]

\* the forEach of handleMessage: each listener runs inside its own try/catch
RECURSIVE forEachListenerNoCatch(_, _)
forEachListenerNoCatch(cbs, throwers) ==
    IF cbs = <<>> THEN <<>>
    ELSE IF Head(cbs) \in throwers THEN <<Head(cbs)>>
    ELSE <<Head(cbs)>> \o forEachListenerNoCatch(Tail(cbs), throwers)

RECURSIVE forEachListener(_, _)
forEachListener(cbs, throwers) ==
    IF cbs = <<>> THEN <<>>
    ELSE <<Head(cbs)>> \o forEachListener(Tail(cbs), throwers)

\* this.listeners.get(type) || []
listenersGet(type) == IF type \in DOMAIN listeners THEN listeners[type] ELSE <<>>

\* handleMessage(data): the new queue and the callbacks invoked, in order
handleMessageAlsoQueues(data, queue, processing, throwers) ==
    [queue |-> Append(queue, data), dispatched |-> TRUE,
     invoked |-> forEachListener(listenersGet(data.type) \o listenersGet(WILDCARD),
                                 throwers)]

handleMessage(data, queue, processing, throwers) ==
    IF processing
    THEN [queue |-> Append(queue, data), dispatched |-> FALSE, invoked |-> <<>>]
    ELSE [queue |-> queue, dispatched |-> TRUE,
          invoked |-> forEachListener(listenersGet(data.type) \o listenersGet(WILDCARD),
                                      throwers)]

\* the listeners' view: a published message (seq > 0) some listener was called with
Saw(data, invoked) == IF data.seq > 0 /\ invoked # <<>> THEN <<data>> ELSE <<>>

\* processNext(), the closure of processMessageQueue
processNext(queue, tms, throwers) ==
    IF queue = <<>>
    THEN [queue |-> queue, processing |-> FALSE, timers |-> tms, saw |-> <<>>]
    ELSE LET h == handleMessage(Head(queue), Tail(queue), TRUE, throwers)
         IN [queue |-> h.queue, processing |-> TRUE,
             timers |-> Append(tms, [kind |-> "processNext", delay |-> 0]),
             saw |-> Saw(Head(queue), h.invoked)]

\* processMessageQueue()
processMessageQueueNoLengthTest(queue, processing, tms, throwers) ==
    IF processing
    THEN [queue |-> queue, processing |-> processing, timers |-> tms, saw |-> <<>>]
    ELSE [queue |-> queue, processing |-> TRUE,
          timers |-> Append(tms, [kind |-> "processNext", delay |-> 0]), saw |-> <<>>]

processMessageQueue(queue, processing, tms, throwers) ==
    IF processing \/ queue = <<>>
    THEN [queue |-> queue, processing |-> processing, timers |-> tms, saw |-> <<>>]
    ELSE processNext(queue, tms, throwers)

\* connect(), run with the timer list tms; throws: new WebSocket(...) (or the
\* read of window.location) raised, and the catch block ran attemptReconnect()
connect(throws, tms) ==
    IF throws
    THEN LET r == attemptReconnect(reconnectAttempts, tms)
         IN /\ reconnectAttempts' = r.attempts
            /\ timers' = r.timers
            /\ failsSinceOpen' = failsSinceOpen + 1
            /\ UNCHANGED <<ws, readyState, connectionStatus, openedAfter>>
    ELSE /\ ws' = "sock"
         /\ readyState' = "CONNECTING"
         /\ connectionStatus' = "connecting"
         /\ openedAfter' = -1
         /\ timers' = tms
         /\ UNCHANGED <<reconnectAttempts, failsSinceOpen>>

\* a setTimeout callback runs: the reconnect timer's connect(), or processNext()
TimerFire ==
    \E i \in 1..Len(timers) :
        LET t == timers[i]
            rest == RemoveAt(timers, i)
        IN IF t.kind = "reconnect"
           THEN /\ \E throws \in BOOLEAN : connect(throws, rest)
                /\ ev' = NoEv
                /\ UNCHANGED <<listeners, heartbeatInterval, messageQueue,
                               isProcessingQueue, hbActive, transmitted, nextSend,
                               dropped, seen>>
           ELSE /\ \E throwers \in SUBSET Callbacks :
                     LET p == processNext(messageQueue, rest, throwers)
                     IN /\ messageQueue' = p.queue
                        /\ isProcessingQueue' = p.processing
                        /\ timers' = p.timers
                        /\ seen' = seen \o p.saw
                /\ ev' = NoEv
                /\ UNCHANGED <<ws, reconnectAttempts, listeners, connectionStatus,
                               heartbeatInterval, readyState, hbActive, transmitted,
                               nextSend, dropped, failsSinceOpen, openedAfter>>

\* ws.onopen
OnOpenNoReset(before) == before
OnOpenAttempts(before) == 0

OnOpen ==
    /\ readyState = "CONNECTING"
    /\ readyState' = "OPEN"
    /\ connectionStatus' = "connected"
    /\ reconnectAttempts' = OnOpenAttempts(reconnectAttempts)
    /\ LET h == startHeartbeat(heartbeatInterval, hbActive)
       IN /\ heartbeatInterval' = h.field
          /\ hbActive' = h.active
    /\ \E throwers \in SUBSET Callbacks :
         LET p == processMessageQueue(messageQueue, isProcessingQueue, timers, throwers)
         IN /\ messageQueue' = p.queue
            /\ isProcessingQueue' = p.processing
            /\ timers' = p.timers
            /\ seen' = seen \o p.saw
    /\ failsSinceOpen' = 0
    /\ openedAfter' = reconnectAttempts
    /\ ev' = [op |-> "open"]
    /\ UNCHANGED <<ws, listeners, transmitted, nextSend, dropped>>

\* ws.onmessage: JSON.parse, then handleMessage; a parse error is caught
onmessage(data, throwers, malformed) ==
    /\ readyState \in {"OPEN", "CLOSING"}
    /\ IF malformed
       THEN /\ ev' = NoEv
            /\ UNCHANGED <<messageQueue, seen>>
       ELSE LET h == handleMessage(data, messageQueue, isProcessingQueue, throwers)
                thrown == {i \in 1..Len(h.invoked) : h.invoked[i] \in throwers}
            IN /\ messageQueue' = h.queue
               /\ seen' = seen \o Saw(data, h.invoked)
               /\ ev' = [op |-> "message", type |-> data.type,
                         dispatched |-> h.dispatched, invoked |-> h.invoked,
                         threw |-> IF thrown = {} THEN 0
                                   ELSE CHOOSE i \in thrown : \A j \in thrown : i <= j]
    /\ UNCHANGED <<ws, reconnectAttempts, listeners, connectionStatus,
                   heartbeatInterval, isProcessingQueue, readyState, timers,
                   hbActive, transmitted, nextSend, dropped, failsSinceOpen,
                   openedAfter>>

\* the socket closes: (ws.onerror, then) ws.onclose, in one task
OnClose ==
    /\ readyState \in {"CONNECTING", "OPEN", "CLOSING"}
    /\ readyState' = "CLOSED"
    /\ connectionStatus' = "disconnected"
    /\ LET h == stopHeartbeat(heartbeatInterval, hbActive)
       IN /\ heartbeatInterval' = h.field
          /\ hbActive' = h.active
    /\ LET r == attemptReconnect(reconnectAttempts, timers)
       IN /\ reconnectAttempts' = r.attempts
          /\ timers' = r.timers
    /\ failsSinceOpen' = failsSinceOpen + 1
    /\ ev' = [op |-> "close", wasOpen |-> openedAfter >= 0]
    /\ UNCHANGED <<ws, listeners, messageQueue, isProcessingQueue, transmitted,
                   nextSend, dropped, openedAfter>>

\* the setInterval callback of startHeartbeat
HeartbeatTick ==
    /\ hbActive > 0
    /\ transmitted' = IF ws # "null" /\ readyState = "OPEN"
                      THEN transmitted \cup {[type |-> "heartbeat"]}
                      ELSE transmitted
    /\ ev' = NoEv
    /\ UNCHANGED <<ws, reconnectAttempts, listeners, connectionStatus,
                   heartbeatInterval, messageQueue, isProcessingQueue, readyState,
                   timers, hbActive, nextSend, dropped, failsSinceOpen, openedAfter>>

\* subscribe(type, callback)
Subscribe ==
    /\ SumLen(listeners, ListenerKeys) < MaxListeners
    /\ \E type \in ListenerKeys, cb \in Callbacks :
         listeners' = [listeners EXCEPT ![type] = Append(@, cb)]
    /\ ev' = NoEv
    /\ UNCHANGED <<ws, reconnectAttempts, connectionStatus, heartbeatInterval,
                   messageQueue, isProcessingQueue, readyState, timers, hbActive,
                   transmitted, nextSend, dropped, failsSinceOpen, openedAfter>>

\* the function subscribe() returned, called (any number of times)
Unsubscribe ==
    /\ \E type \in ListenerKeys, cb \in Callbacks :
         LET index == IndexOf(listeners[type], cb)
         IN /\ index > 0
            /\ listeners' = [listeners EXCEPT ![type] = RemoveAt(@, index)]
    /\ ev' = NoEv
    /\ UNCHANGED <<ws, reconnectAttempts, connectionStatus, heartbeatInterval,
                   messageQueue, isProcessingQueue, readyState, timers, hbActive,
                   transmitted, nextSend, dropped, failsSinceOpen, openedAfter>>

\* unsubscribeAll()
unsubscribeAll == [k \in ListenerKeys |-> <<>>]

\* send(data): whether the message goes on the wire
sendAlways(wsRef, state) == TRUE
sendTransmits(wsRef, state) == wsRef # "null" /\ state = "OPEN"

Send ==
    /\ nextSend < MaxSends
    /\ nextSend' = nextSend + 1
    /\ LET id == nextSend + 1
           open == ws # "null" /\ readyState = "OPEN"
       IN /\ transmitted' = IF sendTransmits(ws, readyState)
                            THEN transmitted \cup {[type |-> "data", id |-> id]}
                            ELSE transmitted
          /\ dropped' = IF open THEN dropped ELSE dropped \cup {id}
          /\ ev' = [op |-> "send", id |-> id,
                    outcome |-> IF sendTransmits(ws, readyState) THEN "sent" ELSE "warned"]
    /\ UNCHANGED <<ws, reconnectAttempts, listeners, connectionStatus,
                   heartbeatInterval, messageQueue, isProcessingQueue, readyState,
                   timers, hbActive, failsSinceOpen, openedAfter>>

\* disconnect()
Disconnect ==
    /\ LET h == stopHeartbeat(heartbeatInterval, hbActive)
       IN /\ heartbeatInterval' = h.field
          /\ hbActive' = h.active
    /\ IF ws # "null"
       THEN /\ readyState' = IF readyState \in {"CONNECTING", "OPEN"}
                             THEN "CLOSING" ELSE readyState   \* ws.close()
            /\ ws' = "null"
       ELSE UNCHANGED <<ws, readyState>>
    /\ listeners' = unsubscribeAll
    /\ ev' = [op |-> "disconnect"]
    /\ UNCHANGED <<reconnectAttempts, connectionStatus, messageQueue,
                   isProcessingQueue, timers, transmitted, nextSend, dropped,
                   failsSinceOpen, openedAfter>>

\* the state after `new RealtimeService()`: the constructor calls connect()
ClientInit ==
    /\ listeners = [k \in ListenerKeys |-> <<>>]
    /\ heartbeatInterval = FALSE
    /\ messageQueue = <<>>
    /\ isProcessingQueue = FALSE
    /\ hbActive = 0
    /\ transmitted = {}
    /\ nextSend = 0
    /\ dropped = {}
    /\ openedAfter = -1
    /\ ev = NoEv
    /\ \/ /\ ws = "sock"                 \* connect() created the socket
          /\ readyState = "CONNECTING"
          /\ connectionStatus = "connecting"
          /\ reconnectAttempts = 0
          /\ timers = <<>>
          /\ failsSinceOpen = 0
       \/ /\ ws = "null"                 \* connect() threw: attemptReconnect()
          /\ readyState = "NONE"
          /\ connectionStatus = "disconnected"
          /\ reconnectAttempts = 1
          /\ timers = <<[kind |-> "reconnect", delay |-> Delay(1)]>>
          /\ failsSinceOpen = 1

\* a message of any type arrives on the socket
OnMessage ==
    \E type \in Types, throwers \in SUBSET Callbacks, malformed \in BOOLEAN :
        onmessage([type |-> type, seq |-> 0], throwers, malformed)

\* ------------------------------------------------------ the ws server (hub)

OpenClients == {c \in Range(clients) : srvState[c] = "OPEN"}

\* Set.prototype.delete
SetDelete(s, x) == SelectSeq(s, LAMBDA y : y # x)

\* Set.prototype.add
SetAdd(s, x) == IF x \in Range(s) THEN s ELSE Append(s, x)

NoCopies == [c \in Conns |-> 0]

\* broadcast(data): clients.forEach in insertion order; failing: the clients
\* whose send() throws.  copies: how many times send() accepted the message for
\* each client, deleted: the clients removed by the catch block, propagated: an
\* error left broadcast()
RECURSIVE broadcastNoCatch(_, _, _)
broadcastNoCatch(todo, state, failing) ==
    IF todo = <<>> THEN [copies |-> NoCopies, deleted |-> {}, propagated |-> FALSE]
    ELSE LET c == Head(todo)
         IN IF state[c] # "OPEN" THEN broadcastNoCatch(Tail(todo), state, failing)
            ELSE IF c \in failing
            THEN [copies |-> NoCopies, deleted |-> {}, propagated |-> TRUE]
            ELSE LET rest == broadcastNoCatch(Tail(todo), state, failing)
                 IN [rest EXCEPT !.copies[c] = @ + 1]

RECURSIVE broadcast(_, _, _)
broadcast(todo, state, failing) ==
    IF todo = <<>> THEN [copies |-> NoCopies, deleted |-> {}, propagated |-> FALSE]
    ELSE LET c == Head(todo)
             rest == broadcast(Tail(todo), state, failing)
         IN IF state[c] # "OPEN" THEN rest
            ELSE IF c \in failing THEN [rest EXCEPT !.deleted = @ \cup {c}]
            ELSE [rest EXCEPT !.copies[c] = @ + 1]

\* a generator tick or a POST calls broadcast(data)
Broadcast ==
    /\ published < MaxPublish
    /\ published' = published + 1
    /\ \E type \in Types, failing \in SUBSET OpenClients :
         LET msg == [type |-> type, seq |-> published + 1]
             r == broadcast(clients, srvState, failing)
         IN /\ clients' = SelectSeq(clients, LAMBDA c : c \notin r.deleted)
            /\ stream' = IF peer # 0 /\ r.copies[peer] > 0
                         THEN stream \o [i \in 1..r.copies[peer] |-> msg]
                         ELSE stream
            /\ ev' = [op |-> "broadcast", msg |-> msg, targets |-> OpenClients,
                      failing |-> failing, copies |-> r.copies,
                      propagated |-> r.propagated]
    /\ UNCHANGED <<srvState, requests>>

\* wss.on('connection'): the next socket is accepted (the welcome message is
\* sent to it alone)
connection(c) ==
    /\ srvState[c] = "NONE"
    /\ \A d \in Conns : d < c => srvState[d] # "NONE"
    /\ clients' = SetAdd(clients, c)
    /\ srvState' = [srvState EXCEPT ![c] = "OPEN"]
    /\ ev' = NoEv
    /\ UNCHANGED <<requests, published>>

\* ws.on('message'): heartbeat is answered to the sender; subscribe and
\* unsubscribe are logged
message(c, kind, type) ==
    /\ srvState[c] = "OPEN"
    /\ requests' = CASE kind = "subscribe" -> [requests EXCEPT ![c][type] = "on"]
                     [] kind = "unsubscribe" ->
                          [requests EXCEPT ![c][type] = IF @ = "on" THEN "off" ELSE @]
                     [] OTHER -> requests
    /\ ev' = NoEv
    /\ UNCHANGED <<clients, srvState, published>>

SrvMessage ==
    \E c \in Conns, kind \in {"heartbeat", "subscribe", "unsubscribe"}, type \in Types :
        message(c, kind, type)

\* the socket starts closing (a close frame arrived): readyState leaves OPEN
\* before the 'close' event is emitted
SrvClosing ==
    \E c \in Conns :
        /\ srvState[c] = "OPEN"
        /\ srvState' = [srvState EXCEPT ![c] = "CLOSING"]
        /\ ev' = NoEv
        /\ UNCHANGED <<clients, requests, published>>

\* ws.on('close')
SrvClose ==
    \E c \in Conns :
        /\ srvState[c] \in {"OPEN", "CLOSING"}
        /\ srvState' = [srvState EXCEPT ![c] = "CLOSED"]
        /\ clients' = SetDelete(clients, c)
        /\ ev' = NoEv
        /\ UNCHANGED <<requests, published>>

\* ws.on('error'): the socket is on its way to closed; 'close' follows
SrvError ==
    \E c \in Conns :
        /\ srvState[c] \in {"OPEN", "CLOSING"}
        /\ srvState' = [srvState EXCEPT ![c] = "CLOSING"]
        /\ clients' = SetDelete(clients, c)
        /\ ev' = NoEv
        /\ UNCHANGED <<requests, published>>

\* module load: no server-side socket yet
HubInit ==
    /\ clients = <<>>
    /\ srvState = [c \in Conns |-> "NONE"]
    /\ requests = [c \in Conns |-> [t \in Types |-> "never"]]
    /\ published = 0

LinkInit ==
    /\ peer = 0
    /\ stream = <<>>
    /\ seen = <<>>

\* ---------------------------------------------- the client wired to the hub

\* the server accepts the client's connecting socket
LinkedConnection ==
    /\ readyState = "CONNECTING"
    /\ peer = 0
    /\ \E c \in Conns : connection(c) /\ peer' = c
    /\ UNCHANGED <<stream, seen>>

\* the head of the socket's stream is delivered to ws.onmessage
LinkedOnMessage ==
    /\ peer # 0
    /\ stream # <<>>
    /\ \E throwers \in SUBSET Callbacks : onmessage(Head(stream), throwers, FALSE)
    /\ stream' = Tail(stream)
    /\ UNCHANGED peer

\* the client's socket closes; what was left in its stream is lost
LinkedOnClose ==
    /\ OnClose
    /\ peer' = 0
    /\ stream' = <<>>
    /\ UNCHANGED seen

\* ------------------------------------------ silence and backlog, observed

NetInit ==
    /\ silentFor = [c \in Conns |-> 0]
    /\ buffered = [c \in Conns |-> 0]

\* a heartbeat from connection c is handled
HeartbeatReceived ==
    /\ \E c \in Conns :
         /\ message(c, "heartbeat", "alert")
         /\ silentFor' = [silentFor EXCEPT ![c] = 0]
    /\ UNCHANGED buffered

\* one heartbeat interval passes in which no connection sends anything: no
\* handler of the server runs
IntervalElapses ==
    /\ \E c \in Range(clients) : silentFor[c] <= TimeoutIntervals + 1
    /\ silentFor' = [c \in Conns |->
                       IF c \in Range(clients) /\ silentFor[c] <= TimeoutIntervals + 1
                       THEN silentFor[c] + 1 ELSE silentFor[c]]
    /\ ev' = NoEv
    /\ UNCHANGED <<hubVars, buffered>>

\* broadcast(data) to peers that do not read: what send() accepts stays in
\* the socket's outbound buffer
BufferedBroadcast ==
    /\ Broadcast
    /\ buffered' = [c \in Conns |-> buffered[c] + ev'.copies[c]]
    /\ UNCHANGED silentFor

\* the peer of connection c reads what was buffered for it
Drain ==
    /\ \E c \in Conns :
         /\ buffered[c] > 0
         /\ buffered' = [buffered EXCEPT ![c] = 0]
    /\ ev' = NoEv
    /\ UNCHANGED <<hubVars, silentFor>>

\* ------------------------------------------------- setupSocket (Socket.IO)

SocketInit ==
    /\ sockets = [c \in Conns |-> "none"]
    /\ room = <<>>

\* socket.join(room): the room is a Set of socket ids
joinAppends(members, sid) == Append(members, sid)

join(members, sid) == SetAdd(members, sid)

\* socket.leave(room)
leave(members, sid) == SetDelete(members, sid)

\* the non-empty lists of types a client names in subscribe / unsubscribe
TypeLists == (SUBSET Types) \ {{}}

\* io.on('connection'): the handlers are registered and the welcome is emitted
IoConnection ==
    /\ \E c \in Conns :
         /\ sockets[c] = "none"
         /\ sockets' = [sockets EXCEPT ![c] = "connected"]
         /\ ev' = [op |-> "connection", sid |-> c, emitted |-> "system"]
    /\ UNCHANGED room

\* socket.on('subscribe')
IoSubscribe ==
    /\ \E c \in Conns, types \in TypeLists :
         /\ sockets[c] = "connected"
         /\ room' = join(room, c)
         /\ ev' = [op |-> "subscribe", sid |-> c, types |-> types,
                   emitted |-> "subscription-confirmed",
                   wasMember |-> c \in Range(room),
                   again |-> ev.op = "subscribe" /\ ev.sid = c /\ ev.types = types,
                   before |-> Len(room)]
    /\ UNCHANGED sockets

\* socket.on('unsubscribe')
IoUnsubscribe ==
    /\ \E c \in Conns, types \in TypeLists :
         /\ sockets[c] = "connected"
         /\ room' = leave(room, c)
         /\ ev' = [op |-> "unsubscribe", sid |-> c, types |-> types]
    /\ UNCHANGED sockets

\* socket.on('message') and socket.on('heartbeat'): the answer goes to the sender
IoEcho ==
    /\ \E c \in Conns, kind \in {"message", "heartbeat"} :
         /\ sockets[c] = "connected"
         /\ ev' = [op |-> kind, sid |-> c,
                   emitted |-> IF kind = "message" THEN "message" ELSE "heartbeat_response"]
    /\ UNCHANGED socketVars

\* socket.on('disconnect'): the socket has left every room
IoDisconnect ==
    /\ \E c \in Conns :
         /\ sockets[c] = "connected"
         /\ sockets' = [sockets EXCEPT ![c] = "disconnected"]
         /\ room' = leave(room, c)
         /\ ev' = [op |-> "disconnect", sid |-> c]

\* ----------------------------------------------------------- OfflineService

\* OfflineData['type']
DataTypes == {"oceanographic", "prediction", "vessel", "alert", "map"}

\* the object stores created by onupgradeneeded
StoreNames == {"oceanographic", "predictions", "vessels", "alerts", "maps",
               "syncQueue", "config"}

DataValues == {"d1", "d2"}

Runs == 1..MaxRuns

\* new Date(t).toISOString() keeps the time to the millisecond, as calendar
\* fields (here: whole seconds and milliseconds)
toISOString(t) == [s |-> t \div 1000, ms |-> t % 1000]

\* new Date(iso).getTime()
getTime(iso) == iso.s * 1000 + iso.ms

IdleRun == [todo |-> <<>>, attempts |-> 0, snapshot |-> {}, allAccepted |-> TRUE]

\* addItem(storeName, data): db.transaction throws for an unknown store and
\* store.add fails for a key that is present; both reject the promise
addItemPuts(dbRef, st, storeName, rec) ==
    IF dbRef = "null" \/ storeName \notin StoreNames
    THEN [ok |-> FALSE, stores |-> st]
    ELSE [ok |-> TRUE,
          stores |-> [st EXCEPT ![storeName] =
                         {r \in @ : r.id # rec.id} \cup {rec}]]

addItem(dbRef, st, storeName, rec) ==
    IF dbRef = "null" \/ storeName \notin StoreNames
    THEN [ok |-> FALSE, stores |-> st]
    ELSE IF \E r \in st[storeName] : r.id = rec.id
    THEN [ok |-> FALSE, stores |-> st]
    ELSE [ok |-> TRUE, stores |-> [st EXCEPT ![storeName] = @ \cup {rec}]]

\* deleteItem(storeName, key)
deleteItem(dbRef, st, storeName, key) ==
    IF dbRef = "null" \/ storeName \notin StoreNames
    THEN [ok |-> FALSE, stores |-> st]
    ELSE [ok |-> TRUE, stores |-> [st EXCEPT ![storeName] = {r \in @ : r.id # key}]]

\* getItem(storeName, key): the records found (none: undefined)
getItem(dbRef, st, storeName, key) ==
    IF dbRef = "null" \/ storeName \notin StoreNames
    THEN [ok |-> FALSE, result |-> {}]
    ELSE [ok |-> TRUE, result |-> {r \in st[storeName] : r.id = key}]

\* store.getAll(): the records in key order
RECURSIVE InKeyOrder(_)
InKeyOrder(recs) ==
    IF recs = {} THEN <<>>
    ELSE LET first == CHOOSE r \in recs : \A q \in recs : r.id <= q.id
         IN <<first>> \o InKeyOrder(recs \ {first})

\* getAllItems(storeName)
getAllItems(dbRef, st, storeName) ==
    IF dbRef = "null" \/ storeName \notin StoreNames
    THEN [ok |-> FALSE, result |-> <<>>]
    ELSE [ok |-> TRUE, result |-> InKeyOrder(st[storeName])]

\* startSyncInterval(): the new (syncInterval, syncTimers)
startSyncIntervalNoGuard(field, active) == [field |-> TRUE, active |-> active + 1]

startSyncInterval(field, active) ==
    IF field THEN [field |-> field, active |-> active]
    ELSE [field |-> TRUE, active |-> active + 1]

\* stopSyncInterval()
stopSyncInterval(field, active) ==
    IF field THEN [field |-> FALSE, active |-> active - 1]
    ELSE [field |-> field, active |-> active]

\* the guard of syncData(): whether the call goes on to read the sync queue
syncDataProceedsAlways(online, cfg) == TRUE

syncDataProceeds(online, cfg) == online /\ cfg.enableOfflineMode

\* syncData() up to its first await, called with isOnline = online: the run it
\* starts (if any) takes the free slot r
syncData(online, r) ==
    IF ~syncDataProceeds(online, config)
    THEN [read |-> FALSE, runs |-> runs]
    ELSE LET q == getAllItems(db, stores, "syncQueue")
         IN [read |-> TRUE,
             runs |-> IF q.ok /\ q.result # <<>>
                      THEN [runs EXCEPT ![r] =
                               [todo |-> q.result, attempts |-> 0,
                                snapshot |-> {q.result[i].id : i \in 1..Len(q.result)},
                                allAccepted |-> TRUE]]
                      ELSE runs]

\* the slot a syncData() call made with isOnline = online may use: the first
\* free one; a call that returns at once needs none
FreeRun(r) == runs[r] = IdleRun /\ \A q \in Runs : q < r => runs[q] # IdleRun

Slots(online) ==
    IF \E r \in Runs : FreeRun(r) THEN {r \in Runs : FreeRun(r)}
    ELSE IF ~syncDataProceeds(online, config) THEN {1}
    ELSE {}

\* what a task that called syncData() reports
SyncEv(op, online, s) ==
    [op |-> op, calledSync |-> TRUE, online |-> online,
     enabled |-> config.enableOfflineMode, read |-> s.read,
     started |-> s.runs # runs, after |-> ev.op]

\* the state after `new OfflineService()`: initializeDB() has opened its
\* request, loadConfig() found this.db null and logged the error
OfflineInit ==
    /\ db = "null"
    /\ isOnline \in BOOLEAN          \* navigator.onLine
    /\ syncInterval = FALSE
    /\ config = [enableOfflineMode |-> TRUE, autoSync |-> TRUE]
    /\ stores = [n \in StoreNames |-> {}]
    /\ syncTimers = 0
    /\ storeCalls = 0
    /\ storing = <<>>
    /\ runs = [r \in Runs |-> IdleRun]
    /\ now = 0
    /\ sent = [i \in 1..MaxItems |-> 0]

\* request.onsuccess of indexedDB.open
DbOpened ==
    /\ db = "null"
    /\ db' = "open"
    /\ ev' = NoEv
    /\ UNCHANGED <<now, sent, isOnline, syncInterval, config, stores, syncTimers, storeCalls,
                   storing, runs>>

\* window 'online': isOnline = true, then handleOnline()
OnlineEvent ==
    /\ isOnline' = TRUE
    /\ \E r \in Slots(TRUE) :
         LET s == syncData(TRUE, r)
            IN /\ runs' = s.runs
               /\ ev' = SyncEv("online", TRUE, s)
    /\ LET t == IF config.autoSync THEN startSyncInterval(syncInterval, syncTimers)
                ELSE [field |-> syncInterval, active |-> syncTimers]
       IN /\ syncInterval' = t.field
          /\ syncTimers' = t.active
    /\ UNCHANGED <<now, sent, db, config, stores, storeCalls, storing>>

\* window 'offline': isOnline = false, then handleOffline()
OfflineEvent ==
    /\ isOnline' = FALSE
    /\ LET t == stopSyncInterval(syncInterval, syncTimers)
       IN /\ syncInterval' = t.field
          /\ syncTimers' = t.active
    /\ ev' = [op |-> "offline", calledSync |-> FALSE]
    /\ UNCHANGED <<now, sent, db, config, stores, storeCalls, storing, runs>>

\* document 'visibilitychange'
VisibilityChange ==
    /\ \E visible \in BOOLEAN :
         IF visible /\ isOnline
         THEN \E r \in Slots(isOnline) :
                LET s == syncData(isOnline, r)
                   IN /\ runs' = s.runs
                      /\ ev' = SyncEv("visibilitychange", isOnline, s)
         ELSE /\ ev' = [op |-> "visibilitychange", calledSync |-> FALSE]
              /\ UNCHANGED runs
    /\ UNCHANGED <<now, sent, db, isOnline, syncInterval, config, stores, syncTimers,
                   storeCalls, storing>>

\* the setInterval callback of startSyncInterval
SyncTimerTick ==
    /\ syncTimers > 0
    /\ \E r \in Slots(isOnline) :
         LET s == syncData(isOnline, r)
            IN /\ runs' = s.runs
               /\ ev' = SyncEv("timer", isOnline, s)
    /\ UNCHANGED <<now, sent, db, isOnline, syncInterval, config, stores, syncTimers,
                   storeCalls, storing>>

\* offlineService.syncData() called by the application (syncNow)
SyncNow ==
    /\ \E r \in Slots(isOnline) :
         LET s == syncData(isOnline, r)
            IN /\ runs' = s.runs
               /\ ev' = SyncEv("syncData", isOnline, s)
    /\ UNCHANGED <<now, sent, db, isOnline, syncInterval, config, stores, syncTimers,
                   storeCalls, storing>>

\* updateConfig(newConfig): the fields are merged, then the record is added
\* to the config store (key 0 stands for 'offlineConfig')
updateConfig ==
    /\ \E enable \in BOOLEAN, auto \in BOOLEAN :
         config' = [enableOfflineMode |-> enable, autoSync |-> auto]
    /\ LET a == addItem(db, stores, "config", [id |-> 0])
       IN /\ stores' = a.stores
          /\ ev' = [op |-> "updateConfig", calledSync |-> FALSE, rejected |-> ~a.ok]
    /\ UNCHANGED <<now, sent, db, isOnline, syncInterval, syncTimers, storeCalls, storing, runs>>

\* storeData(type, data) up to its first await: the guard, the record, and
\* addItem(type, offlineData) issued on the store named by the type
StoreDataBegin ==
    /\ storeCalls < MaxItems
    /\ storing = <<>>
    /\ storeCalls' = storeCalls + 1
    /\ \E type \in DataTypes, data \in DataValues :
         IF db = "null" \/ ~config.enableOfflineMode
         THEN /\ ev' = [op |-> "storeData", calledSync |-> FALSE, outcome |-> "returned",
                        id |-> 0, type |-> type, data |-> data, queued |-> FALSE,
                        ready |-> FALSE]
              /\ UNCHANGED <<stores, storing>>
         ELSE LET rec == [id |-> storeCalls + 1, type |-> type, data |-> data,
                          timestamp |-> toISOString(now),
                          syncStatus |-> IF isOnline THEN "synced" ELSE "pending"]
                  a == addItem(db, stores, type, rec)
              IN IF a.ok
                 THEN /\ stores' = a.stores
                      /\ storing' = <<rec>>
                      /\ ev' = [op |-> "storeData.addItem", calledSync |-> FALSE]
                 ELSE /\ ev' = [op |-> "storeData", calledSync |-> FALSE,
                                outcome |-> "threw", id |-> 0, type |-> type,
                                data |-> data, queued |-> FALSE, ready |-> TRUE]
                      /\ UNCHANGED <<stores, storing>>
    /\ UNCHANGED <<now, sent, db, isOnline, syncInterval, config, syncTimers, runs>>

\* storeData() after its first await: the sync queue when offline, then the id
StoreDataFinish ==
    /\ storing # <<>>
    /\ storing' = <<>>
    /\ LET rec == storing[1]
           q == IF ~isOnline THEN addItem(db, stores, "syncQueue", rec)
                ELSE [ok |-> TRUE, stores |-> stores]
       IN /\ stores' = q.stores
          /\ ev' = [op |-> "storeData", calledSync |-> FALSE,
                    outcome |-> IF q.ok THEN "returned" ELSE "threw",
                    id |-> IF q.ok THEN rec.id ELSE 0, type |-> rec.type,
                    data |-> rec.data, queued |-> ~isOnline /\ q.ok, ready |-> TRUE]
    /\ UNCHANGED <<now, sent, db, isOnline, syncInterval, config, syncTimers, storeCalls, runs>>

\* getData(type, id)
GetData ==
    /\ \E type \in DataTypes, id \in 1..MaxItems :
         LET g == getItem(db, stores, type, id)
             ready == db # "null" /\ config.enableOfflineMode
         IN ev' = [op |-> "getData", calledSync |-> FALSE, type |-> type, id |-> id,
                   ready |-> ready,
                   result |-> IF ready /\ g.ok THEN g.result ELSE {},
                   stored |-> IF ev.op = "storeData" /\ ev.outcome = "returned"
                                 /\ ev.id = id /\ ev.type = type
                              THEN {ev.data} ELSE {}]
    /\ UNCHANGED offVars

\* what is left of a run after its current item
RunAfterItem(run) == [run EXCEPT !.todo = Tail(@), !.attempts = 0]

\* one pass of the while loop of syncItem() for the item at the head of run r:
\* sendToServer() (accepted or not), then the try's writes or the catch
SyncAttempt ==
    /\ \E r \in Runs, accepted \in BOOLEAN :
         /\ runs[r].todo # <<>>
         /\ LET run == [runs[r] EXCEPT !.allAccepted = @ /\ accepted]
                item == Head(run.todo)
                a == addItem(db, stores, item.type, [item EXCEPT !.syncStatus = "synced"])
                attempts == run.attempts + 1
                f == addItem(db, stores, item.type, [item EXCEPT !.syncStatus = "failed"])
                next == IF accepted /\ a.ok
                        THEN [run |-> RunAfterItem(run), thrown |-> FALSE,
                              stores |-> deleteItem(db, a.stores, "syncQueue", item.id).stores]
                        ELSE IF attempts < retryAttempts
                        THEN [run |-> [run EXCEPT !.attempts = attempts],
                              thrown |-> FALSE, stores |-> stores]
                        ELSE IF f.ok
                        THEN [run |-> RunAfterItem(run), thrown |-> FALSE,
                              stores |-> f.stores]
                        ELSE [run |-> [run EXCEPT !.todo = <<>>], thrown |-> TRUE,
                              stores |-> stores]
            IN /\ stores' = next.stores
               /\ sent' = IF accepted
                          THEN [sent EXCEPT ![item.id] = IF @ < SentCap THEN @ + 1 ELSE @]
                          ELSE sent
               /\ runs' = [runs EXCEPT ![r] = IF next.run.todo = <<>> THEN IdleRun
                                              ELSE next.run]
               /\ ev' = IF next.run.todo = <<>>
                        THEN [op |-> "syncDone", calledSync |-> FALSE,
                              snapshot |-> run.snapshot,
                              allAccepted |-> next.run.allAccepted,
                              thrown |-> next.thrown]
                        ELSE [op |-> "syncItem", calledSync |-> FALSE,
                              id |-> item.id, accepted |-> accepted]
    /\ UNCHANGED <<now, db, isOnline, syncInterval, config, syncTimers, storeCalls, storing>>

\* time passes
ClockTick ==
    /\ now < MaxTicks * StepMs
    /\ now' = now + StepMs
    /\ ev' = NoEv
    /\ UNCHANGED <<sent, db, isOnline, syncInterval, config, stores, syncTimers,
                   storeCalls, storing, runs>>

\* the maxAge arguments tried
MaxAges == {0, StepMs, 2 * StepMs}

\* the stores clearOldData() goes through
ClearedStores == <<"oceanographic", "predictions", "vessels", "alerts", "maps">>

\* items.filter(item => new Date(item.timestamp).getTime() < cutoffTime)
oldItemsNoFilter(items, cutoffTime) == items

oldItems(items, cutoffTime) == {item \in items : getTime(item.timestamp) < cutoffTime}

\* the for loop of clearOldData() from store number i on: a store whose
\* getAllItems rejects is skipped by the catch
RECURSIVE clearFrom(_, _, _, _)
clearFrom(i, dbRef, st, cutoffTime) ==
    IF i > Len(ClearedStores) THEN st
    ELSE LET storeName == ClearedStores[i]
             items == getAllItems(dbRef, st, storeName)
             old == oldItems({items.result[k] : k \in 1..Len(items.result)}, cutoffTime)
             after == IF items.ok
                      THEN [st EXCEPT ![storeName] = {r \in @ : \A o \in old : o.id # r.id}]
                      ELSE st
         IN clearFrom(i + 1, dbRef, after, cutoffTime)

\* clearOldData(maxAge), its IndexedDB requests served with no other task of
\* the page in between
ClearOldData ==
    /\ \E maxAge \in MaxAges :
         LET ready == db # "null" /\ config.enableOfflineMode
             cutoffTime == now - maxAge
         IN /\ stores' = IF ready THEN clearFrom(1, db, stores, cutoffTime) ELSE stores
            /\ ev' = [op |-> "clearOldData", calledSync |-> FALSE, ready |-> ready,
                      cutoffTime |-> cutoffTime, before |-> stores]
    /\ UNCHANGED <<now, sent, db, isOnline, syncInterval, config, syncTimers,
                   storeCalls, storing, runs>>

\* removeData(type, id): deleteItem on the store named by the type, then on
\* the sync queue; a rejection of the first is rethrown
RemoveData ==
    /\ \E type \in DataTypes, id \in 1..MaxItems :
         LET ready == db # "null" /\ config.enableOfflineMode
             d == deleteItem(db, stores, type, id)
             q == deleteItem(db, d.stores, "syncQueue", id)
         IN /\ stores' = IF ready /\ d.ok THEN q.stores ELSE stores
            /\ ev' = [op |-> "removeData", calledSync |-> FALSE, ready |-> ready,
                      outcome |-> IF ready /\ ~(d.ok /\ q.ok) THEN "threw" ELSE "returned"]
    /\ UNCHANGED <<now, sent, db, isOnline, syncInterval, config, syncTimers,
                   storeCalls, storing, runs>>


\* ------------------------------------------------------- DataGenerators

\* isRunning()
isRunning(ivs) == \E g \in Generators : ivs[g] # 0

\* startGenerating(): the four start*Data() calls; each creates a timer with
\* setInterval and records it with intervals.set(name, interval)
startGenerating(ivs, live, seq) ==
    [intervals |-> [g \in Generators |-> seq + 1],
     live |-> live \cup {[name |-> g, id |-> seq + 1] : g \in Generators},
     seq |-> seq + 1]

\* stopGenerating(): clearInterval on every recorded timer, then intervals.clear()
stopGeneratingNoClear(ivs, live) ==
    [intervals |-> ivs,
     live |-> {t \in live : ivs[t.name] # t.id}]

stopGenerating(ivs, live) ==
    [intervals |-> [g \in Generators |-> 0],
     live |-> {t \in live : ivs[t.name] # t.id}]

\* module load: wss = null, new DataGenerators()
GenInit ==
    /\ wss = "null"
    /\ intervals = [g \in Generators |-> 0]
    /\ liveTimers = {}
    /\ timerSeq = 0
    /\ stopCalls = 0
    /\ cycles = 0
    /\ getCalls = 0
    /\ signals = 0

\* ---- the ws route: initializeWebSocketServer, GET, the signal handlers

\* initializeWebSocketServer(): returns at once when wss is set; otherwise
\* creates the server, registers the handlers and starts the generators if
\* clients.size === 1 at this point
initializeWebSocketServer ==
    IF wss # "null"
    THEN UNCHANGED <<wss, intervals, liveTimers, timerSeq>>
    ELSE /\ wss' = "listening"
         /\ IF Len(clients) = 1
            THEN LET r == startGenerating(intervals, liveTimers, timerSeq)
                 IN /\ intervals' = r.intervals
                    /\ liveTimers' = r.live
                    /\ timerSeq' = r.seq
            ELSE UNCHANGED <<intervals, liveTimers, timerSeq>>

\* GET /api/realtime of the ws route
WsGET ==
    /\ getCalls < MaxRequests
    /\ getCalls' = getCalls + 1
    /\ initializeWebSocketServer
    /\ ev' = [op |-> "GET", connectedClients |-> Len(clients)]
    /\ UNCHANGED <<stopCalls, cycles, signals>>

\* wss.on('connection') while the server accepts connections
WsConnection ==
    /\ wss = "listening"
    /\ \E c \in Conns : connection(c)
    /\ cycles' = IF clients = <<>> THEN cycles + 1 ELSE cycles
    /\ UNCHANGED <<wss, intervals, liveTimers, timerSeq, stopCalls, getCalls, signals>>

\* process.on('SIGTERM') / process.on('SIGINT') of the ws route
WsSignal ==
    /\ signals < MaxSignals
    /\ signals' = signals + 1
    /\ IF wss # "null"
       THEN LET r == stopGenerating(intervals, liveTimers)
            IN /\ wss' = IF wss = "listening" THEN "closing" ELSE wss   \* wss.close()
               /\ intervals' = r.intervals
               /\ liveTimers' = r.live
               /\ stopCalls' = stopCalls + 1
       ELSE UNCHANGED <<wss, intervals, liveTimers, stopCalls>>
    /\ ev' = NoEv
    /\ UNCHANGED <<timerSeq, cycles, getCalls>>

\* wss.on('close'): the server has closed
WssClose ==
    /\ wss = "closing"
    /\ wss' = "closed"
    /\ IF Len(clients) = 0
       THEN LET r == stopGenerating(intervals, liveTimers)
            IN /\ intervals' = r.intervals
               /\ liveTimers' = r.live
               /\ stopCalls' = stopCalls + 1
       ELSE UNCHANGED <<intervals, liveTimers, stopCalls>>
    /\ ev' = NoEv
    /\ UNCHANGED <<timerSeq, cycles, getCalls, signals>>

\* ---- the Socket.IO route: initializeDataGenerators, GET, the signal handlers

\* initializeDataGenerators()
initializeDataGeneratorsAlways(ivs, live, seq) == startGenerating(ivs, live, seq)

initializeDataGenerators(ivs, live, seq) ==
    IF ~isRunning(ivs) THEN startGenerating(ivs, live, seq)
    ELSE [intervals |-> ivs, live |-> live, seq |-> seq]

\* GET /api/realtime of the Socket.IO route
IoGET ==
    /\ getCalls < MaxRequests
    /\ getCalls' = getCalls + 1
    /\ LET r == initializeDataGenerators(intervals, liveTimers, timerSeq)
       IN /\ intervals' = r.intervals
          /\ liveTimers' = r.live
          /\ timerSeq' = r.seq
    /\ ev' = [op |-> "GET", connectedClients |-> Len(clients)]
    /\ UNCHANGED <<wss, stopCalls, cycles, signals>>

\* process.on('SIGTERM') / process.on('SIGINT') of the Socket.IO route:
\* dataGenerators.stopGenerating()
IoSignal ==
    /\ signals < MaxSignals
    /\ signals' = signals + 1
    /\ LET r == stopGenerating(intervals, liveTimers)
       IN /\ intervals' = r.intervals
          /\ liveTimers' = r.live
    /\ stopCalls' = stopCalls + 1
    /\ ev' = [op |-> "stopGenerating", wasRunning |-> isRunning(intervals),
              after |-> ev.op]
    /\ UNCHANGED <<wss, timerSeq, cycles, getCalls>>

\* POST /api/realtime of the Socket.IO route: broadcast() logs the message,
\* an unknown type is answered with status 400
PostTypes == {"custom_alert", "update_prediction", "system_message", "other"}

IoPOST ==
    /\ \E type \in PostTypes :
         ev' = [op |-> "POST", type |-> type,
                status |-> IF type = "other" THEN 400 ELSE 200]
    /\ UNCHANGED genVars

\* a generator's setInterval callback runs; broadcast() of this route logs the
\* message
GeneratorTick ==
    /\ \E t \in liveTimers : ev' = [op |-> "tick", name |-> t.name, id |-> t.id]
    /\ UNCHANGED genVars

\* ---------------------------------------------------------- specifications

Init == ClientInit /\ HubInit /\ LinkInit /\ GenInit /\ NetInit /\ SocketInit
        /\ OfflineInit

\* the client against an arbitrary server
ClientNext ==
    \/ TimerFire /\ UNCHANGED <<hubVars, genVars, peer, stream, netVars, socketVars, offVars>>
    \/ OnOpen /\ UNCHANGED <<hubVars, genVars, peer, stream, netVars, socketVars, offVars>>
    \/ OnMessage /\ UNCHANGED <<hubVars, genVars, peer, stream, netVars, socketVars, offVars>>
    \/ OnClose /\ UNCHANGED <<hubVars, genVars, linkVars, netVars, socketVars, offVars>>
    \/ HeartbeatTick /\ UNCHANGED <<hubVars, genVars, linkVars, netVars, socketVars, offVars>>
    \/ Subscribe /\ UNCHANGED <<hubVars, genVars, linkVars, netVars, socketVars, offVars>>
    \/ Unsubscribe /\ UNCHANGED <<hubVars, genVars, linkVars, netVars, socketVars, offVars>>
    \/ Send /\ UNCHANGED <<hubVars, genVars, linkVars, netVars, socketVars, offVars>>
    \/ Disconnect /\ UNCHANGED <<hubVars, genVars, linkVars, netVars, socketVars, offVars>>

ClientSpec == Init /\ [][ClientNext]_vars

\* the server against arbitrary clients
HubNext ==
    \/ (\E c \in Conns : connection(c)) /\ UNCHANGED <<clientVars, genVars, linkVars, netVars, socketVars, offVars>>
    \/ SrvMessage /\ UNCHANGED <<clientVars, genVars, linkVars, netVars, socketVars, offVars>>
    \/ SrvClosing /\ UNCHANGED <<clientVars, genVars, linkVars, netVars, socketVars, offVars>>
    \/ SrvClose /\ UNCHANGED <<clientVars, genVars, linkVars, netVars, socketVars, offVars>>
    \/ SrvError /\ UNCHANGED <<clientVars, genVars, linkVars, netVars, socketVars, offVars>>
    \/ Broadcast /\ UNCHANGED <<clientVars, genVars, peer, seen, netVars, socketVars, offVars>>

\* (the client takes no step: it is held at its first initial state)
InitConnecting == Init /\ ws = "sock"

HubSpec == InitConnecting /\ [][HubNext]_vars

\* the client connected to the server
OrderNext ==
    \/ TimerFire /\ UNCHANGED <<hubVars, genVars, peer, stream, netVars, socketVars, offVars>>
    \/ LinkedConnection /\ UNCHANGED <<clientVars, genVars, netVars, socketVars, offVars>>
    \/ (peer # 0 /\ OnOpen) /\ UNCHANGED <<hubVars, genVars, peer, stream, netVars, socketVars, offVars>>
    \/ LinkedOnMessage /\ UNCHANGED <<hubVars, genVars, netVars, socketVars, offVars>>
    \/ LinkedOnClose /\ UNCHANGED <<hubVars, genVars, netVars, socketVars, offVars>>
    \/ Subscribe /\ UNCHANGED <<hubVars, genVars, linkVars, netVars, socketVars, offVars>>
    \/ Unsubscribe /\ UNCHANGED <<hubVars, genVars, linkVars, netVars, socketVars, offVars>>
    \/ SrvClose /\ UNCHANGED <<clientVars, genVars, linkVars, netVars, socketVars, offVars>>
    \/ Broadcast /\ UNCHANGED <<clientVars, genVars, peer, seen, netVars, socketVars, offVars>>

OrderSpec == Init /\ [][OrderNext]_vars

\* the ws route with its clients
WsRouteNext ==
    \/ WsGET /\ UNCHANGED <<clientVars, hubVars, linkVars, netVars, socketVars, offVars>>
    \/ WsConnection /\ UNCHANGED <<clientVars, linkVars, netVars, socketVars, offVars>>
    \/ SrvClose /\ UNCHANGED <<clientVars, genVars, linkVars, netVars, socketVars, offVars>>
    \/ SrvError /\ UNCHANGED <<clientVars, genVars, linkVars, netVars, socketVars, offVars>>
    \/ WsSignal /\ UNCHANGED <<clientVars, hubVars, linkVars, netVars, socketVars, offVars>>
    \/ WssClose /\ UNCHANGED <<clientVars, hubVars, linkVars, netVars, socketVars, offVars>>

WsRouteSpec == InitConnecting /\ [][WsRouteNext]_vars

\* the Socket.IO route
IoRouteNext ==
    \/ IoGET /\ UNCHANGED <<clientVars, hubVars, linkVars, netVars, socketVars, offVars>>
    \/ IoSignal /\ UNCHANGED <<clientVars, hubVars, linkVars, netVars, socketVars, offVars>>
    \/ GeneratorTick /\ UNCHANGED <<clientVars, hubVars, linkVars, netVars, socketVars, offVars>>
    \/ IoPOST /\ UNCHANGED <<clientVars, hubVars, linkVars, netVars, socketVars, offVars>>

IoRouteSpec == InitConnecting /\ [][IoRouteNext]_vars

\* the hub with silent and slow peers
NetNext ==
    \/ (\E c \in Conns : connection(c)) /\ UNCHANGED <<clientVars, linkVars, genVars, netVars, socketVars, offVars>>
    \/ HeartbeatReceived /\ UNCHANGED <<clientVars, linkVars, genVars, socketVars, offVars>>
    \/ IntervalElapses /\ UNCHANGED <<clientVars, linkVars, genVars, socketVars, offVars>>
    \/ BufferedBroadcast /\ UNCHANGED <<clientVars, genVars, peer, seen, socketVars, offVars>>
    \/ Drain /\ UNCHANGED <<clientVars, linkVars, genVars, socketVars, offVars>>
    \/ SrvClose /\ UNCHANGED <<clientVars, linkVars, genVars, netVars, socketVars, offVars>>

NetSpec == InitConnecting /\ [][NetNext]_vars

\* the Socket.IO server with its sockets
SocketNext ==
    \/ IoConnection /\ UNCHANGED <<clientVars, hubVars, linkVars, genVars, netVars, offVars>>
    \/ IoSubscribe /\ UNCHANGED <<clientVars, hubVars, linkVars, genVars, netVars, offVars>>
    \/ IoUnsubscribe /\ UNCHANGED <<clientVars, hubVars, linkVars, genVars, netVars, offVars>>
    \/ IoEcho /\ UNCHANGED <<clientVars, hubVars, linkVars, genVars, netVars, offVars>>
    \/ IoDisconnect /\ UNCHANGED <<clientVars, hubVars, linkVars, genVars, netVars, offVars>>

SocketSpec == InitConnecting /\ [][SocketNext]_vars

\* the offline service in its page
OfflineNext ==
    \/ DbOpened /\ UNCHANGED <<clientVars, hubVars, linkVars, genVars, netVars, socketVars>>
    \/ OnlineEvent /\ UNCHANGED <<clientVars, hubVars, linkVars, genVars, netVars, socketVars>>
    \/ OfflineEvent /\ UNCHANGED <<clientVars, hubVars, linkVars, genVars, netVars, socketVars>>
    \/ VisibilityChange /\ UNCHANGED <<clientVars, hubVars, linkVars, genVars, netVars, socketVars>>
    \/ SyncTimerTick /\ UNCHANGED <<clientVars, hubVars, linkVars, genVars, netVars, socketVars>>
    \/ SyncNow /\ UNCHANGED <<clientVars, hubVars, linkVars, genVars, netVars, socketVars>>
    \/ updateConfig /\ UNCHANGED <<clientVars, hubVars, linkVars, genVars, netVars, socketVars>>
    \/ StoreDataBegin /\ UNCHANGED <<clientVars, hubVars, linkVars, genVars, netVars, socketVars>>
    \/ StoreDataFinish /\ UNCHANGED <<clientVars, hubVars, linkVars, genVars, netVars, socketVars>>
    \/ GetData /\ UNCHANGED <<clientVars, hubVars, linkVars, genVars, netVars, socketVars>>
    \/ SyncAttempt /\ UNCHANGED <<clientVars, hubVars, linkVars, genVars, netVars, socketVars>>

OfflineSpec == InitConnecting /\ [][OfflineNext]_vars

\* the offline service as time passes: storing, removing and clearing
CleanupNext ==
    \/ DbOpened /\ UNCHANGED <<clientVars, hubVars, linkVars, genVars, netVars, socketVars>>
    \/ updateConfig /\ UNCHANGED <<clientVars, hubVars, linkVars, genVars, netVars, socketVars>>
    \/ StoreDataBegin /\ UNCHANGED <<clientVars, hubVars, linkVars, genVars, netVars, socketVars>>
    \/ StoreDataFinish /\ UNCHANGED <<clientVars, hubVars, linkVars, genVars, netVars, socketVars>>
    \/ ClockTick /\ UNCHANGED <<clientVars, hubVars, linkVars, genVars, netVars, socketVars>>
    \/ ClearOldData /\ UNCHANGED <<clientVars, hubVars, linkVars, genVars, netVars, socketVars>>
    \/ RemoveData /\ UNCHANGED <<clientVars, hubVars, linkVars, genVars, netVars, socketVars>>

CleanupSpec == InitConnecting /\ [][CleanupNext]_vars

Next == ClientNext \/ HubNext \/ OrderNext \/ WsRouteNext \/ IoRouteNext \/ NetNext \/ SocketNext
        \/ OfflineNext \/ CleanupNext
Spec == Init /\ [][Next]_vars

\* ------------------------------------------------------------- properties

\* C1: a message of topic T handed to broadcast() reaches every connection
\* subscribed to T at that moment exactly once (when its send does not fail),
\* and reaches no connection that is not subscribed to T.
C1_FanOutBySubscription ==
    ev.op = "broadcast" =>
        \A c \in Conns :
            /\ (requests[c][ev.msg.type] = "on" /\ c \in ev.targets \ ev.failing)
                   => ev.copies[c] = 1
            /\ requests[c][ev.msg.type] # "on" => ev.copies[c] = 0

\* C2: once a connection's unsubscribe from T has been handled, a later
\* broadcast of topic T delivers nothing to that connection.
C2_NoDeliveryAfterUnsubscribe ==
    ev.op = "broadcast" =>
        \A c \in Conns : requests[c][ev.msg.type] = "off" => ev.copies[c] = 0

\* C3: when a client's send throws during a broadcast, every other open client
\* in the set still gets the message once, no error leaves broadcast(), and
\* the failing client is no longer in the set of clients.
C3_SendFailureIsolated ==
    ev.op = "broadcast" =>
        /\ \A c \in ev.targets \ ev.failing : ev.copies[c] = 1
        /\ ~ev.propagated
        /\ Range(clients) \cap ev.failing = {}

\* a client's send threw and a client after it in iteration order got the message
C3_FailureThenDelivery ==
    /\ ev.op = "broadcast"
    /\ \E f \in ev.failing, c \in ev.targets \ ev.failing : f < c /\ ev.copies[c] = 1

ExpectedDelays == <<1000, 2000, 4000, 8000, 16000>>

\* C4: the reconnect scheduled after the Nth consecutive failure (N = 1..5)
\* has a delay of 1000 * 2^(N-1) ms: 1000, 2000, 4000, 8000, 16000.
C4_BackoffDelays ==
    \A i \in 1..Len(timers) :
        timers[i].kind = "reconnect" =>
            /\ failsSinceOpen \in 1..Len(ExpectedDelays)
            /\ timers[i].delay = ExpectedDelays[failsSinceOpen]

\* the fifth reconnect is pending
C4_FifthAttemptScheduled ==
    \E i \in 1..Len(timers) : timers[i].kind = "reconnect" /\ timers[i].delay = 16000

\* the first connection and the five reconnects after it all failed
Exhausted == failsSinceOpen = maxReconnectAttempts + 1

\* C5: after five consecutive failed reconnect attempts no connection attempt
\* is pending or under way, getConnectionStatus() is 'disconnected', and this
\* stays so in every later state.
C5_NoRetryAfterMax ==
    /\ [](Exhausted =>
            /\ \A i \in 1..Len(timers) : timers[i].kind # "reconnect"
            /\ readyState \notin {"CONNECTING", "OPEN"}
            /\ getConnectionStatus = "disconnected")
    /\ [][Exhausted => Exhausted']_vars

\* the budget is used up by closes of sockets that were created
C5_BudgetUsedUp == Exhausted /\ readyState = "CLOSED"

\* C6: onopen resets reconnectAttempts to 0, so the close of a socket that had
\* opened schedules reconnect number 1, with the base delay.
C6_OpenResetsCounter ==
    /\ ev.op = "open" => reconnectAttempts = 0
    /\ (ev.op = "close" /\ ev.wasOpen) =>
           /\ reconnectAttempts = 1
           /\ timers = <<[kind |-> "reconnect", delay |-> reconnectDelay]>>

\* a socket obtained by a reconnect (counter above 0) opened and then closed
C6_LossAfterReconnect == ev.op = "close" /\ ev.wasOpen /\ openedAfter > 0

\* C7: getConnectionStatus() is 'connected' only while the client holds an
\* open socket.
C7_ConnectedOnlyIfOpen ==
    getConnectionStatus = "connected" => (ws # "null" /\ readyState = "OPEN")

\* C8: a message of type T is dispatched to every callback registered for T
\* and then every callback registered for '*', whether or not one of them throws.
C8_AllListenersInvoked ==
    ev.op = "message" =>
        /\ ev.dispatched
        /\ ev.invoked = listenersGet(ev.type) \o listenersGet(WILDCARD)

\* the first callback threw and another one was invoked after it
C8_ThrowThenNext == ev.op = "message" /\ ev.threw = 1 /\ Len(ev.invoked) >= 2

\* C9: a send() made while the socket is not open puts nothing on the wire,
\* ends with the warning, and its message is never put on the wire later.
C9_DroppedNeverSent ==
    /\ \A id \in dropped : [type |-> "data", id |-> id] \notin transmitted
    /\ (ev.op = "send" /\ ev.id \in dropped) => ev.outcome = "warned"

\* a send() was dropped and the socket is open now
C9_OpenAfterDrop ==
    dropped # {} /\ ws # "null" /\ readyState = "OPEN" /\ connectionStatus = "connected"

\* C10: the listeners see the messages of one topic in publish order.
C10_PerTopicOrder ==
    \A i, j \in 1..Len(seen) :
        (i < j /\ seen[i].type = seen[j].type) => seen[i].seq < seen[j].seq

\* two messages of one topic were seen
C10_TwoSeen ==
    \E i, j \in 1..Len(seen) : i < j /\ seen[i].type = seen[j].type

\* C11: the generators are started when the client count goes from 0 to 1 and
\* stopped when it returns to 0: one startGenerating() per cycle and one
\* stopGenerating() per completed cycle.
C11_GeneratorsFollowClients ==
    wss # "null" =>
        /\ timerSeq = cycles
        /\ stopCalls = IF clients = <<>> THEN cycles ELSE cycles - 1
        /\ isRunning(intervals) <=> clients # <<>>

\* C12: each generator has at most one running timer, and every running timer
\* is the one recorded for its generator in the intervals map.
C12_NoLeakedTimers ==
    /\ \A g \in Generators : Cardinality({t \in liveTimers : t.name = g}) <= 1
    /\ \A t \in liveTimers : intervals[t.name] = t.id

\* the generators run again after a stop, and a further GET found them running
C12_RestartedAndAskedAgain ==
    /\ timerSeq >= 2
    /\ getCalls > timerSeq
    /\ liveTimers # {}

\* C13: after stopGenerating(), also when nothing was running or when the
\* previous call was a stopGenerating() too, no generator timer runs and
\* isRunning() is false.
C13_StopIdempotent ==
    ev.op = "stopGenerating" => (liveTimers = {} /\ ~isRunning(intervals))

\* stopGenerating() ran twice in a row, the first time with running generators
C13_StoppedTwice ==
    /\ ev.op = "stopGenerating"
    /\ ev.after = "stopGenerating"
    /\ ~ev.wasRunning
    /\ timerSeq > 0

\* C14: a connection that has sent nothing for more than the timeout is no
\* longer a broadcast target one heartbeat interval later.
C14_SilentConnectionRemoved ==
    \A c \in Range(clients) : silentFor[c] <= TimeoutIntervals + 1

\* C15: a connection whose outbound backlog exceeds the configured depth is
\* dropped from the clients instead of being buffered for further.
C15_DeepQueueDropped ==
    \A c \in Range(clients) : buffered[c] <= MaxDepth

\* C16: after a subscribe the socket is in the topic's room exactly once, and
\* a subscribe of a socket that is already a member leaves the room as it was.
C16_SubscribeIdempotent ==
    ev.op = "subscribe" =>
        /\ Cardinality({i \in 1..Len(room) : room[i] = ev.sid}) = 1
        /\ ev.wasMember => Len(room) = ev.before

\* the same subscribe was handled twice in a row
C16_SubscribedTwice == ev.op = "subscribe" /\ ev.again /\ ev.wasMember

DataStores == StoreNames \ {"syncQueue", "config"}

\* C17: when a syncData() run ends online and the server accepted every send,
\* each item the run found in the sync queue is out of the queue and is in a
\* data store with syncStatus 'synced'.
C17_SyncedItemsLeaveQueue ==
    (ev.op = "syncDone" /\ ev.allAccepted /\ isOnline) =>
        \A id \in ev.snapshot :
            /\ \A r \in stores["syncQueue"] : r.id # id
            /\ \E n \in DataStores : \E r \in stores[n] :
                   r.id = id /\ r.syncStatus = "synced"

\* C18: with the database open and offline mode enabled, storeData(type, data)
\* returns a non-empty id for every type, and the getData(type, id) that
\* follows returns exactly one record, holding the stored data.
C18_StoreThenGet ==
    /\ (ev.op = "storeData" /\ ev.ready) => (ev.outcome = "returned" /\ ev.id # 0)
    /\ (ev.op = "getData" /\ ev.ready /\ ev.stored # {}) =>
           /\ Cardinality(ev.result) = 1
           /\ \A r \in ev.result : {r.data} = ev.stored

SyncCallers == {"online", "visibilitychange", "timer", "syncData"}

\* C19: a syncData() call made while offline, or with offline mode disabled,
\* does not read the sync queue and starts no run: nothing is sent and no
\* store changes.
C19_OfflineSyncIsNoOp ==
    (ev.op \in SyncCallers /\ ev.calledSync /\ (~ev.online \/ ~ev.enabled)) =>
        (~ev.read /\ ~ev.started)

\* syncData() was called offline with an item waiting in the sync queue
C19_OfflineWithQueuedItem ==
    /\ ev.op = "syncData"
    /\ ev.calledSync
    /\ ~ev.online
    /\ stores["syncQueue"] # {}
    /\ db = "open"

\* C20: after 'online' isOnline is true and, with autoSync, the sync timer
\* runs; after 'offline' isOnline is false and no sync timer runs; there is
\* never more than one sync timer, and none while isOnline is false.
C20_OneSyncTimer ==
    /\ syncTimers <= 1
    /\ syncTimers > 0 => isOnline
    /\ ev.op = "online" => (isOnline /\ (config.autoSync => (syncInterval /\ syncTimers = 1)))
    /\ ev.op = "offline" => (~isOnline /\ ~syncInterval /\ syncTimers = 0)

\* two 'online' events in a row, with the timer running
C20_OnlineTwice == ev.op = "online" /\ ev.after = "online" /\ syncTimers = 1

C22_NoReconnectAfterDisconnect ==
    (ws = "null" /\ readyState \in {"CLOSING", "CLOSED"}) =>
        /\ \A i \in 1..Len(timers) : timers[i].kind # "reconnect"
        /\ readyState = "CLOSED" => connectionStatus = "disconnected"

\* C25: messageQueue is empty and isProcessingQueue is false in every state,
\* and every message received is dispatched to its listeners in the task
\* that received it.
C25_QueueAlwaysEmpty ==
    /\ messageQueue = <<>>
    /\ ~isProcessingQueue
    /\ ev.op = "message" => ev.dispatched

\* a message reached a listener on a socket that had opened (onopen had
\* called processMessageQueue)
C25_DispatchedAfterOpen ==
    /\ ev.op = "message"
    /\ ev.dispatched
    /\ ev.invoked # <<>>
    /\ openedAfter >= 0

\* C23: no queued item is sent to the server successfully more than once,
\* whatever syncData() runs are in flight.
C23_SentAtMostOnce == \A i \in 1..MaxItems : sent[i] <= 1

\* C24: when a storeData() call has returned its id, the record it stored has
\* syncStatus 'pending' if and only if the sync queue holds it.
C24_PendingIffQueued ==
    (ev.op = "storeData" /\ ev.outcome = "returned" /\ ev.id # 0) =>
        \A r \in stores[ev.type] :
            r.id = ev.id =>
                (r.syncStatus = "pending" <=> \E q \in stores["syncQueue"] : q.id = ev.id)
====
